---- MODULE Spec2Model ----
(***************************************************************************)
(* A model of mongoalchemy/document.py: Document (construction from        *)
(* keyword arguments, the validating __setattr__, __getattribute__, wrap,  *)
(* unwrap, commit), DocumentField and Index.                               *)
(*                                                                         *)
(* Python values are records [cls, s, vals]: cls is the value's class, s   *)
(* the payload of a scalar, vals the attribute dictionary of a Document    *)
(* instance or the items of a dict.                                        *)
(***************************************************************************)
EXTENDS Integers, Sequences, FiniteSets, TLC

VARIABLES
    schema,   \* class name -> field name -> Field descriptor (class attributes)
    index,    \* Index attribute name -> Index object (components, unique, drop_dups)
    chain,    \* Index attribute name -> the builder calls made on it, in call order
    ncalls,   \* number of Index method calls made so far
    inst,     \* the Document instance the program holds (NoneV when it holds none)
    op,       \* the most recent operation: its receiver, arguments and outcome
    coll,     \* the collection: ensured indexes and the identifiers of saved documents
    pc,       \* position inside Document.commit ("idle" outside of it)
    todo,     \* commit: the indexes still to ensure
    trace     \* the calls the most recent operation made on the collection and on the
              \* instance, in order (for Index.ensure: those of the current run of
              \* consecutive ensure calls on one Index)

vars == <<schema, index, chain, ncalls, inst, op, coll, pc, todo, trace>>

-----------------------------------------------------------------------------
(* Values *)

EmptyDict == <<>>

Val(c, s, d) == [cls |-> c, s |-> s, vals |-> d]

NoneV == Val("NoneType", "", EmptyDict)

StrV(s) == Val("str", s, EmptyDict)

IntV(s) == Val("int", s, EmptyDict)

OidV(s) == Val("ObjectId", s, EmptyDict)

Dict(d) == Val("dict", "", d)

ObjectIds == {OidV("oid1"), OidV("oid2")}

Put(d, k, v) == [n \in (DOMAIN d) \cup {k} |-> IF n = k THEN v ELSE d[n]]

Result(e, o) == [exc |-> e, obj |-> o]

-----------------------------------------------------------------------------
(* The schema: Field descriptors bound to the classes that declare them *)

FieldDesc(k, t, r, a, h, d) ==
    [kind |-> k, type |-> t, required |-> r, auto |-> a, hasDefault |-> h, default |-> d]

\* Document._id = ObjectIdField(required=False)
IdField == FieldDesc("ObjectIdField", "", FALSE, TRUE, FALSE, NoneV)

\* Every combination of required / auto / default (none, a valid one, an invalid one)
\* of a string field.
StringProfiles ==
    {FieldDesc("StringField", "", r, a, hd[1], hd[2]) :
        r \in BOOLEAN, a \in BOOLEAN,
        hd \in {<<FALSE, NoneV>>, <<TRUE, StrV("v1")>>, <<TRUE, IntV("7")>>}}

DocumentMeta(nameF, homeF, cityF) ==
    [Person  |-> [_id |-> IdField, name |-> nameF, home |-> homeF],
     Address |-> [_id |-> IdField, city |-> cityF]]

Methods == {"commit", "wrap", "unwrap", "get_fields", "get_indexes", "f"}

IndexNames(c) == IF c = "Person" THEN DOMAIN index ELSE {}

\* dir(cls)
ClassAttrs(c) == (DOMAIN schema[c]) \cup IndexNames(c) \cup Methods

HasAttr(c, name) == name \in ClassAttrs(c)

IsField(c, name) == name \in DOMAIN schema[c]

get_fields(c) == {n \in ClassAttrs(c) : n # "f" /\ IsField(c, n)}

\* Orders in which a dictionary with the key set S may be iterated.
Orders(S) ==
    {o \in [1..Cardinality(S) -> S] : \A i, j \in DOMAIN o : i # j => o[i] # o[j]}

CanonOrder(S) == CHOOSE o \in Orders(S) : TRUE

\* The order in which a dictionary with the key set S is iterated, when `rank` is
\* the order the interpreter gives to all the keys in play.
IterOrder(rank, S) == SelectSeq(rank, LAMBDA n : n \in S)

-----------------------------------------------------------------------------
(* Field.validate_wrap *)

\* The leaf fields accept the values of their own type.
Field_is_valid_wrap(field, value) ==
    CASE field.kind = "StringField"    -> value.cls = "str"
      [] field.kind = "ObjectIdField"  -> value.cls = "ObjectId"
      [] OTHER                         -> FALSE

\* DocumentField.is_valid_wrap: value.__class__ == self.type
DocumentField_is_valid_wrap(field, value) == value.cls = field.type

is_valid_wrap(field, value) ==
    IF field.kind = "DocumentField"
    THEN DocumentField_is_valid_wrap(field, value)
    ELSE Field_is_valid_wrap(field, value)

\* validate_wrap: the exception it raises, "" when it raises none
validate_wrap(field, value) ==
    IF is_valid_wrap(field, value) THEN "" ELSE "BadValueException"

-----------------------------------------------------------------------------
(* Document.__setattr__ *)

\* Mutant: the value is stored before it is validated.
SetAttr_AssignFirst(x, name, value) ==
    IF ~HasAttr(x.cls, name) \/ ~IsField(x.cls, name)
    THEN Result("AttributeError", x)
    ELSE Result(validate_wrap(schema[x.cls][name], value),
                [x EXCEPT !.vals = Put(@, name, value)])

SetAttr(x, name, value) ==
    IF ~HasAttr(x.cls, name) \/ ~IsField(x.cls, name)
    THEN Result("AttributeError", x)
    ELSE LET e == validate_wrap(schema[x.cls][name], value)
         IN  IF e # "" THEN Result(e, x)
             ELSE Result("", [x EXCEPT !.vals = Put(@, name, value)])

(* Document.__init__ : the loop over get_fields() in iteration order `order`,
   then the check for keyword arguments that name no field *)

RECURSIVE InitLoop(_, _, _)

\* Mutant: the loop without its `if field.auto: continue`.
RECURSIVE InitLoop_NoAuto(_, _, _)
InitLoop_NoAuto(x, kwargs, order) ==
    IF order = <<>> THEN Result("", x)
    ELSE LET name  == Head(order)
             field == schema[x.cls][name]
         IN  IF name \in DOMAIN kwargs
             THEN LET r == SetAttr(x, name, kwargs[name])
                  IN  IF r.exc # "" THEN r ELSE InitLoop_NoAuto(r.obj, kwargs, Tail(order))
             ELSE IF field.required THEN Result("MissingValueException", x)
             ELSE IF field.hasDefault
                  THEN LET r == SetAttr(x, name, field.default)
                       IN  IF r.exc # "" THEN r ELSE InitLoop_NoAuto(r.obj, kwargs, Tail(order))
                  ELSE InitLoop_NoAuto(x, kwargs, Tail(order))

InitLoop(x, kwargs, order) ==
    IF order = <<>> THEN Result("", x)
    ELSE LET name  == Head(order)
             field == schema[x.cls][name]
         IN  IF name \in DOMAIN kwargs
             THEN LET r == SetAttr(x, name, kwargs[name])
                  IN  IF r.exc # "" THEN r ELSE InitLoop(r.obj, kwargs, Tail(order))
             ELSE IF field.auto THEN InitLoop(x, kwargs, Tail(order))
             ELSE IF field.required THEN Result("MissingValueException", x)
             ELSE IF field.hasDefault
                  THEN LET r == SetAttr(x, name, field.default)
                       IN  IF r.exc # "" THEN r ELSE InitLoop(r.obj, kwargs, Tail(order))
                  ELSE InitLoop(x, kwargs, Tail(order))

DocInit(c, kwargs, order) ==
    LET r == InitLoop(Val(c, "", EmptyDict), kwargs, order)
    IN  IF r.exc # "" THEN Result(r.exc, NoneV)
        ELSE IF \E k \in DOMAIN kwargs : k \notin get_fields(c)
             THEN Result("ExtraValueException", NoneV)
             ELSE r

-----------------------------------------------------------------------------
(* Document.__getattribute__ *)

\* Mutant: no isinstance(value, Field) check, an unset field reads as its descriptor.
GetAttr_NoFieldCheck(x, name) ==
    IF name \in DOMAIN x.vals THEN Result("", x.vals[name])
    ELSE IF ~HasAttr(x.cls, name) THEN Result("AttributeError", NoneV)
    ELSE Result("", Val("attribute", name, EmptyDict))

GetAttr(x, name) ==
    IF name \in DOMAIN x.vals THEN Result("", x.vals[name])
    ELSE IF ~HasAttr(x.cls, name) THEN Result("AttributeError", NoneV)
    ELSE IF IsField(x.cls, name) THEN Result("AttributeError", NoneV)
    ELSE Result("", Val("attribute", name, EmptyDict))

-----------------------------------------------------------------------------
(* Document.wrap and Field.wrap / DocumentField.wrap *)

RECURSIVE DocWrap(_)

\* A leaf field's wrap: validate_wrap, then the value as it is
Field_wrap(field, value) ==
    LET e == validate_wrap(field, value)
    IN  IF e # "" THEN Result(e, NoneV) ELSE Result("", value)

DocumentField_wrap(field, value) ==
    LET e == validate_wrap(field, value)
    IN  IF e # "" THEN Result(e, NoneV) ELSE DocWrap(value)

FieldWrap(field, value) ==
    IF field.kind = "DocumentField"
    THEN DocumentField_wrap(field, value)
    ELSE Field_wrap(field, value)

DocWrap(x) ==
    LET names == {n \in ClassAttrs(x.cls) : GetAttr(x, n).exc = "" /\ IsField(x.cls, n)}
        w(n)  == FieldWrap(schema[x.cls][n], GetAttr(x, n).obj)
    IN  IF \E n \in names : w(n).exc # ""
        THEN Result(w(CHOOSE n \in names : w(n).exc # "").exc, NoneV)
        ELSE Result("", Dict([n \in names |-> w(n).obj]))

-----------------------------------------------------------------------------
(* Document.unwrap and Field.unwrap / DocumentField.unwrap *)

RECURSIVE DocUnwrap(_, _, _, _)

\* self.type.unwrap(value), as DocumentField calls it
TypeUnwrap(field, value) ==
    DocUnwrap(field.type, value, CanonOrder(DOMAIN value.vals),
              CanonOrder(get_fields(field.type)))

Field_is_valid_unwrap(field, value) ==
    CASE field.kind = "StringField"    -> value.cls = "str"
      [] field.kind = "ObjectIdField"  -> value.cls = "ObjectId"
      [] OTHER                         -> FALSE

\* DocumentField.is_valid_unwrap: whether self.type.unwrap(value) raises
DocumentField_is_valid_unwrap(field, value) == TypeUnwrap(field, value).exc = ""

is_valid_unwrap(field, value) ==
    IF field.kind = "DocumentField"
    THEN DocumentField_is_valid_unwrap(field, value)
    ELSE Field_is_valid_unwrap(field, value)

validate_unwrap(field, value) ==
    IF is_valid_unwrap(field, value) THEN "" ELSE "BadValueException"

\* A leaf field's unwrap: validate_unwrap, then the value as it is
Field_unwrap(field, value) ==
    LET e == validate_unwrap(field, value)
    IN  IF e # "" THEN Result(e, NoneV) ELSE Result("", value)

\* Mutant: the stored value is validated and returned as it is, not unwrapped.
DocumentField_unwrap_NoDelegate(field, value) ==
    LET e == validate_unwrap(field, value)
    IN  IF e # "" THEN Result(e, NoneV) ELSE Result("", value)

DocumentField_unwrap(field, value) ==
    LET e == validate_unwrap(field, value)
    IN  IF e # "" THEN Result(e, NoneV) ELSE TypeUnwrap(field, value)

FieldUnwrap(field, value) ==
    IF field.kind = "DocumentField"
    THEN DocumentField_unwrap(field, value)
    ELSE Field_unwrap(field, value)

RECURSIVE UnwrapLoop(_, _, _, _)
UnwrapLoop(c, obj, params, korder) ==
    IF korder = <<>> THEN Result("", Dict(params))
    ELSE LET k == Head(korder)
         IN  IF ~HasAttr(c, k) \/ ~IsField(c, k) THEN Result("AttributeError", NoneV)
             ELSE LET r == FieldUnwrap(schema[c][k], obj.vals[k])
                  IN  IF r.exc # "" THEN r
                      ELSE UnwrapLoop(c, obj, Put(params, k, r.obj), Tail(korder))

DocUnwrap(c, obj, korder, iorder) ==
    IF obj.cls # "dict" THEN Result("AttributeError", NoneV)
    ELSE LET p == UnwrapLoop(c, obj, EmptyDict, korder)
         IN  IF p.exc # "" THEN p ELSE DocInit(c, p.obj.vals, iorder)

-----------------------------------------------------------------------------
(* Index *)

ASCENDING == 1

DESCENDING == -1

\* Index.__init__
IndexInit == [components |-> <<>>, unique |-> FALSE, drop_dups |-> FALSE]

\* Mutant: the component is put in front of the list.
ascending_Prepend(ix, name) ==
    [obj |-> [ix EXCEPT !.components = <<<<name, ASCENDING>>>> \o @], ret |-> "self"]

\* The builder methods give the object as they leave it and the reference they return.
ascending(ix, name) ==
    [obj |-> [ix EXCEPT !.components = Append(@, <<name, ASCENDING>>)], ret |-> "self"]

descending(ix, name) ==
    [obj |-> [ix EXCEPT !.components = Append(@, <<name, DESCENDING>>)], ret |-> "self"]

unique(ix, drop_dups) ==
    [obj |-> [ix EXCEPT !.unique = TRUE, !.drop_dups = drop_dups], ret |-> "self"]

\* Index.ensure: the ensure_index request it sends, the object as it leaves it
ensure(ix) ==
    [req |-> [components |-> ix.components, unique |-> ix.unique,
              drop_dups |-> ix.drop_dups],
     obj |-> ix, ret |-> "self"]

\* The collection (pymongo): ensure_index and save
ensure_index(c, req) == [c EXCEPT !.indexes = @ \cup {req}]

save(c, id) == [c EXCEPT !.saved = @ \cup {id}]

\* The identifiers save may return for a document: its own _id, or a new one.
SaveIds(c, doc) ==
    IF "_id" \in DOMAIN doc.vals THEN {doc.vals["_id"]} ELSE ObjectIds \ c.saved

\* dir(cls) lists attribute names in alphabetical order
DirSorted == <<"_id", "by_home", "by_name", "city", "commit", "f", "get_fields",
               "get_indexes", "home", "name", "unwrap", "wrap">>

\* Mutant: the loop returns at the first Index it finds.
get_indexes_First(c) ==
    LET all == SelectSeq(DirSorted, LAMBDA n : n \in IndexNames(c))
    IN  IF all = <<>> THEN all ELSE <<Head(all)>>

get_indexes(c) == SelectSeq(DirSorted, LAMBDA n : n \in IndexNames(c))

\* A call the program made on the collection or on itself during an operation
Event(ev, idx, req, doc) == [ev |-> ev, idx |-> idx, req |-> req, doc |-> doc]

NoReq == ensure(IndexInit).req

Op(name, self, key, arg, exc, ret) ==
    [name |-> name, self |-> self, key |-> key, arg |-> arg, exc |-> exc, ret |-> ret]

IndexRef(i) == Val("Index", i, EmptyDict)

-----------------------------------------------------------------------------
(* Inputs *)

Absent == Val("absent", "", EmptyDict)

Present(f) == [k \in {k \in DOMAIN f : f[k] # Absent} |-> f[k]]

\* Address instances a program can hold: those Address(**kw) constructs
AddressValues ==
    LET rs == {DocInit("Address", Present([city |-> c]), CanonOrder(DOMAIN schema["Address"])) :
                 c \in {Absent, StrV("v1"), StrV("v2")}}
    IN  {r.obj : r \in {q \in rs : q.exc = ""}}

KwargsSet ==
    {Present([_id |-> a, name |-> b, home |-> d, nickname |-> e]) :
        a \in {Absent, OidV("oid1")},
        b \in {Absent, StrV("v1"), StrV("v2"), IntV("7")},
        d \in {Absent, StrV("v1")} \cup AddressValues,
        e \in {Absent, StrV("v1")}}

StoredDocs ==
    {Dict(Present([_id |-> a, name |-> b, home |-> d, nickname |-> e])) :
        a \in {Absent, OidV("oid1")},
        b \in {Absent, StrV("v1"), IntV("7")},
        d \in {Absent, Dict([city |-> StrV("v1")]), Dict(EmptyDict),
               Dict([city |-> StrV("v1"), zip |-> StrV("v2")])},
        e \in {Absent, StrV("v1")}}

SetNames == {"_id", "name", "home", "nickname", "commit"}

SetValues == {StrV("v1"), StrV("v2"), IntV("7"), OidV("oid1")} \cup AddressValues

GetNames == SetNames \cup {"by_name"}

IndexKeys == {"a", "b"}

MaxCalls == 5

-----------------------------------------------------------------------------
(* Initial states *)

\* by_home = Index().descending("home"); by_name = Index().ascending("name").unique()
DeclaredIndexes ==
    [by_home |-> descending(IndexInit, "home").obj,
     by_name |-> unique(ascending(IndexInit, "name").obj, FALSE).obj]

DeclaredChain ==
    [by_home |-> [calls |-> <<<<"home", DESCENDING>>>>, uniq |-> FALSE],
     by_name |-> [calls |-> <<<<"name", ASCENDING>>>>, uniq |-> TRUE]]

HomeProfiles ==
    {FieldDesc("DocumentField", "Address", r, FALSE, FALSE, NoneV) : r \in BOOLEAN}

\* ... and a DocumentField with a default: an Address, or a value that is none
DefaultedHomeProfiles ==
    {FieldDesc("DocumentField", "Address", FALSE, FALSE, TRUE, d) :
        d \in {Val("Address", "", [city |-> StrV("v1")]), StrV("v1")}}

CityProfiles ==
    {FieldDesc("StringField", "", TRUE, FALSE, FALSE, NoneV),
     FieldDesc("StringField", "", FALSE, FALSE, FALSE, NoneV),
     FieldDesc("StringField", "", FALSE, FALSE, TRUE, StrV("v1"))}

\* A required name (the Person of the example), or an optional one with a default
LifeProfiles ==
    {FieldDesc("StringField", "", TRUE, FALSE, FALSE, NoneV),
     FieldDesc("StringField", "", FALSE, FALSE, TRUE, StrV("v1"))}

InitRest ==
    /\ ncalls = 0
    /\ inst = NoneV
    /\ op = Op("init", NoneV, "", NoneV, "", NoneV)
    /\ coll = [indexes |-> {}, saved |-> {}]
    /\ pc = "idle"
    /\ todo = <<>>
    /\ trace = <<>>

Init ==
    /\ schema \in {DocumentMeta(n, h, c) :
                     n \in StringProfiles, h \in HomeProfiles \cup DefaultedHomeProfiles,
                     c \in CityProfiles}
    /\ index = DeclaredIndexes
    /\ chain = DeclaredChain
    /\ InitRest

InitLife ==
    /\ schema \in {DocumentMeta(n, h, c) :
                     n \in LifeProfiles, h \in HomeProfiles, c \in CityProfiles}
    /\ index = DeclaredIndexes
    /\ chain = DeclaredChain
    /\ InitRest

InitIndex ==
    /\ schema \in {DocumentMeta(n, h, c) :
                     n \in LifeProfiles, h \in HomeProfiles, c \in CityProfiles}
    /\ schema["Person"]["name"].required /\ schema["Person"]["home"].required
    /\ schema["Address"]["city"].required
    /\ index = [by_home |-> IndexInit, by_name |-> IndexInit]
    /\ chain = [i \in {"by_home", "by_name"} |-> [calls |-> <<>>, uniq |-> FALSE]]
    /\ InitRest

-----------------------------------------------------------------------------
(* Operations on documents *)

\* Person(**kw): the program's first operation, it has no instance before
Construct ==
    /\ pc = "idle" /\ op.name = "init"
    /\ \E kw \in KwargsSet, order \in Orders(get_fields("Person")) :
          LET r == DocInit("Person", kw, order)
          IN  /\ inst' = r.obj
              /\ op' = Op("construct", NoneV, "Person", Dict(kw), r.exc, r.obj)
    /\ trace' = <<>>
    /\ UNCHANGED <<schema, index, chain, ncalls, coll, pc, todo>>

\* Person.unwrap(obj): the program's first operation, it has no instance before
Unwrap ==
    /\ pc = "idle" /\ op.name = "init"
    /\ \E obj \in StoredDocs :
       \E rank \in Orders(get_fields("Person") \cup DOMAIN obj.vals) :
          LET r == DocUnwrap("Person", obj, IterOrder(rank, DOMAIN obj.vals),
                             IterOrder(rank, get_fields("Person")))
          IN  /\ inst' = r.obj
              /\ op' = Op("unwrap", NoneV, "Person", obj, r.exc, r.obj)
    /\ trace' = <<>>
    /\ UNCHANGED <<schema, index, chain, ncalls, coll, pc, todo>>

\* inst = Person.unwrap(inst.wrap())
RoundTrip ==
    /\ pc = "idle" /\ inst # NoneV
    /\ LET w == DocWrap(inst)
       IN  IF w.exc # ""
           THEN /\ op' = Op("roundtrip", inst, "Person", NoneV, w.exc, NoneV)
                /\ inst' = inst
           ELSE \E rank \in Orders(get_fields("Person") \cup DOMAIN w.obj.vals) :
                   LET r == DocUnwrap("Person", w.obj, IterOrder(rank, DOMAIN w.obj.vals),
                                      IterOrder(rank, get_fields("Person")))
                   IN  /\ op' = Op("roundtrip", inst, "Person", w.obj, r.exc, r.obj)
                       /\ inst' = IF r.exc = "" THEN r.obj ELSE inst
    /\ trace' = <<>>
    /\ UNCHANGED <<schema, index, chain, ncalls, coll, pc, todo>>

\* inst.<name> = value
Set ==
    /\ pc = "idle" /\ inst # NoneV
    /\ \E name \in SetNames, value \in SetValues :
          LET r == SetAttr(inst, name, value)
          IN  /\ inst' = r.obj
              /\ op' = Op("set", inst, name, value, r.exc, NoneV)
    /\ trace' = <<>>
    /\ UNCHANGED <<schema, index, chain, ncalls, coll, pc, todo>>

\* inst.<name>
Get ==
    /\ pc = "idle" /\ inst # NoneV
    /\ \E name \in GetNames :
          LET r == GetAttr(inst, name)
          IN  op' = Op("get", inst, name, NoneV, r.exc, r.obj)
    /\ trace' = <<>>
    /\ UNCHANGED <<schema, index, chain, ncalls, inst, coll, pc, todo>>

\* inst.wrap()
Wrap ==
    /\ pc = "idle" /\ inst # NoneV
    /\ LET r == DocWrap(inst)
       IN  op' = Op("wrap", inst, "", NoneV, r.exc, r.obj)
    /\ trace' = <<>>
    /\ UNCHANGED <<schema, index, chain, ncalls, inst, coll, pc, todo>>

-----------------------------------------------------------------------------
(* Document.commit, one step per call it makes *)

\* collection = db[...]; the loop over get_indexes() starts
CommitStart ==
    /\ pc = "idle" /\ inst # NoneV
    /\ pc' = "ensure"
    /\ todo' = get_indexes(inst.cls)
    /\ trace' = <<>>
    /\ op' = Op("commit", inst, "", NoneV, "", NoneV)
    /\ UNCHANGED <<schema, index, chain, ncalls, inst, coll>>

\* index.ensure(collection), for the next index of the loop
CommitEnsure ==
    /\ pc = "ensure" /\ todo # <<>>
    /\ LET i == Head(todo)
           e == ensure(index[i])
       IN  /\ trace' = Append(trace, Event("ensure_index", i, e.req, NoneV))
           /\ index' = [index EXCEPT ![i] = e.obj]
           /\ \/ /\ coll' = ensure_index(coll, e.req)
                 /\ todo' = Tail(todo)
                 /\ UNCHANGED <<pc, op>>
              \/ /\ op' = [op EXCEPT !.exc = "OperationFailure"]
                 /\ pc' = "idle"
                 /\ todo' = <<>>
                 /\ UNCHANGED coll
    /\ UNCHANGED <<schema, chain, ncalls, inst>>

\* id = collection.save(self.wrap())
CommitSave ==
    /\ pc = "ensure" /\ todo = <<>>
    /\ LET w == DocWrap(inst)
       IN  IF w.exc # ""
           THEN /\ op' = [op EXCEPT !.exc = w.exc]
                /\ pc' = "idle"
                /\ UNCHANGED <<coll, trace>>
           ELSE /\ trace' = Append(trace, Event("save", "", NoReq, w.obj))
                /\ \/ \E id \in SaveIds(coll, w.obj) :
                         /\ coll' = save(coll, id)
                         /\ op' = [op EXCEPT !.ret = id]
                         /\ pc' = "assign"
                   \/ /\ op' = [op EXCEPT !.exc = "OperationFailure"]
                      /\ pc' = "idle"
                      /\ UNCHANGED coll
    /\ UNCHANGED <<schema, index, chain, ncalls, inst, todo>>

\* Mutant: the identifier save returned is dropped.
CommitAssign_Skipped ==
    /\ pc = "assign"
    /\ pc' = "idle"
    /\ UNCHANGED <<schema, index, chain, ncalls, inst, op, coll, todo, trace>>

\* self._id = id
CommitAssign ==
    /\ pc = "assign"
    /\ LET r == SetAttr(inst, "_id", op.ret)
       IN  /\ inst' = r.obj
           /\ op' = [op EXCEPT !.exc = r.exc]
    /\ trace' = Append(trace, Event("setattr", "", NoReq, op.ret))
    /\ pc' = "idle"
    /\ UNCHANGED <<schema, index, chain, ncalls, coll, todo>>

Commit == CommitStart \/ CommitEnsure \/ CommitSave \/ CommitAssign

-----------------------------------------------------------------------------
(* Operations on the declared Index objects *)

IndexCall(i, name, key, r, exc) ==
    /\ pc = "idle" /\ ncalls < MaxCalls
    /\ ncalls' = ncalls + 1
    /\ index' = [index EXCEPT ![i] = r.obj]
    /\ op' = Op(name, IndexRef(i), key, NoneV, exc,
                IF exc # "" THEN NoneV ELSE IndexRef(IF r.ret = "self" THEN i ELSE r.ret))
    /\ UNCHANGED <<schema, inst, pc, todo>>

Ascending ==
    \E i \in DOMAIN index, n \in IndexKeys :
        /\ IndexCall(i, "ascending", n, ascending(index[i], n), "")
        /\ chain' = [chain EXCEPT ![i].calls = Append(@, <<n, ASCENDING>>)]
        /\ trace' = <<>>
        /\ UNCHANGED coll

Descending ==
    \E i \in DOMAIN index, n \in IndexKeys :
        /\ IndexCall(i, "descending", n, descending(index[i], n), "")
        /\ chain' = [chain EXCEPT ![i].calls = Append(@, <<n, DESCENDING>>)]
        /\ trace' = <<>>
        /\ UNCHANGED coll

Unique ==
    \E i \in DOMAIN index, d \in BOOLEAN :
        /\ IndexCall(i, "unique", IF d THEN "drop_dups" ELSE "", unique(index[i], d), "")
        /\ chain' = [chain EXCEPT ![i].uniq = TRUE]
        /\ trace' = <<>>
        /\ UNCHANGED coll

\* index.ensure(collection); the collection answers or fails
Ensure ==
    \E i \in DOMAIN index :
        LET e == ensure(index[i])
        IN  /\ trace' = Append(IF op.name = "ensure" /\ op.self = IndexRef(i)
                                  THEN trace ELSE <<>>,
                               Event("ensure_index", i, e.req, NoneV))
            /\ UNCHANGED chain
            /\ \/ /\ IndexCall(i, "ensure", "", e, "")
                  /\ coll' = ensure_index(coll, e.req)
               \/ /\ IndexCall(i, "ensure", "", e, "OperationFailure")
                  /\ UNCHANGED coll

-----------------------------------------------------------------------------
Next == Construct \/ Unwrap

Spec == Init /\ [][Next]_vars

NextLife == Construct \/ Unwrap \/ RoundTrip \/ Set \/ Get \/ Wrap

SpecLife == InitLife /\ [][NextLife]_vars

NextCommit == Construct \/ Set \/ Wrap \/ Commit

SpecCommit == InitLife /\ [][NextCommit]_vars

NextIndex == Ascending \/ Descending \/ Unique \/ Ensure

SpecIndex == InitIndex /\ [][NextIndex]_vars

-----------------------------------------------------------------------------
(* Construction from keyword arguments *)

PersonFields == get_fields("Person")

PersonField(n) == schema["Person"][n]

\* The declared fields a keyword mapping omits
Omitted(kw) == PersonFields \ DOMAIN kw

MissingRequired(kw) ==
    \E n \in Omitted(kw) : ~PersonField(n).auto /\ PersonField(n).required

HasExtra(kw) == \E k \in DOMAIN kw : k \notin PersonFields

Defaulted(kw) ==
    {n \in Omitted(kw) :
        ~PersonField(n).auto /\ ~PersonField(n).required /\ PersonField(n).hasDefault}

SuppliedValid(kw) ==
    \A k \in (DOMAIN kw) \cap PersonFields : is_valid_wrap(PersonField(k), kw[k])

DefaultsValid(kw) ==
    \A n \in Defaulted(kw) : is_valid_wrap(PersonField(n), PersonField(n).default)

ConstructionRule(kw) ==
    IF MissingRequired(kw) THEN op.exc = "MissingValueException" /\ inst = NoneV
    ELSE IF HasExtra(kw) THEN op.exc = "ExtraValueException" /\ inst = NoneV
    ELSE /\ op.exc = ""
         /\ inst.cls = "Person"
         /\ DOMAIN inst.vals = (DOMAIN kw) \cup Defaulted(kw)
         /\ \A k \in DOMAIN kw : inst.vals[k] = kw[k]
         /\ \A n \in Defaulted(kw) : inst.vals[n] = PersonField(n).default

\* C1, as stated: a construction whose supplied values are all valid fails with
\* MissingValueException when a non-auto required field is omitted, else with
\* ExtraValueException when a keyword names no field, else succeeds with exactly the
\* supplied keys and the defaults of the omitted non-auto, non-required fields set.
C1_ConstructionAsStated ==
    (op.name = "construct" /\ SuppliedValid(op.arg.vals)) => ConstructionRule(op.arg.vals)

\* C1, amended: the same rule, for the constructions in which every default that would
\* be assigned is itself a valid value of its field.
C1_Construction ==
    (op.name = "construct" /\ SuppliedValid(op.arg.vals) /\ DefaultsValid(op.arg.vals))
        => ConstructionRule(op.arg.vals)

\* A construction that succeeds and leaves an omitted auto field unset although the
\* field declares a default.
C1_Witness ==
    /\ op.name = "construct" /\ op.exc = ""
    /\ SuppliedValid(op.arg.vals) /\ DefaultsValid(op.arg.vals)
    /\ "home" \in DOMAIN op.arg.vals
    /\ PersonField("name").auto /\ PersonField("name").hasDefault
    /\ "name" \notin DOMAIN inst.vals

-----------------------------------------------------------------------------
(* Unwrapping stored documents *)

\* C5: unwrapping a stored document whose keys are all declared fields with valid
\* stored values, and which omits a required non-auto field, succeeds and leaves the
\* omitted field absent.
C5_PartialUnwrapSucceeds ==
    (/\ op.name = "unwrap"
     /\ DOMAIN op.arg.vals \subseteq PersonFields
     /\ \A k \in DOMAIN op.arg.vals : is_valid_unwrap(PersonField(k), op.arg.vals[k])
     /\ MissingRequired(op.arg.vals))
        => (op.exc = "" /\ inst # NoneV /\ DOMAIN inst.vals \cap Omitted(op.arg.vals) = {})

\* C6: unwrapping a stored document with a key that is no declared field fails with
\* ExtraValueException and produces no instance.
C6_UnknownKeyIsExtraValue ==
    (op.name = "unwrap" /\ HasExtra(op.arg.vals))
        => (op.exc = "ExtraValueException" /\ inst = NoneV)

-----------------------------------------------------------------------------
(* Assignment, reading, wrapping *)

\* C2: a failed assignment (BadValueException or AttributeError) leaves every field of
\* the instance as it was: same fields set, same values.
C2_FailedSetKeepsState ==
    (op.name = "set" /\ op.exc \in {"BadValueException", "AttributeError"})
        => (inst = op.self)

\* A rejected value for a field that already holds one.
C2_Witness ==
    /\ op.name = "set" /\ op.exc = "BadValueException"
    /\ op.key \in DOMAIN op.self.vals

AllSet(x) == DOMAIN x.vals = get_fields(x.cls)

\* C3: for an instance whose declared fields are all set, unwrap(wrap(x)) succeeds and
\* gives an instance of the same type with the same fields and values, nested
\* documents included.
C3_RoundTrip ==
    (op.name = "roundtrip" /\ AllSet(op.self))
        => (op.exc = "" /\ op.ret.cls = op.self.cls /\ op.ret.vals = op.self.vals
            /\ inst = op.ret)

\* A round trip of a fully set Person whose home is a nested Address.
C3_Witness ==
    /\ op.name = "roundtrip" /\ AllSet(op.self)
    /\ op.self.vals["home"].cls = "Address"
    /\ op.arg.vals["home"].cls = "dict"
    /\ op.exc = ""

\* C7: reading a declared field that is not set raises FieldNotRetrieved; reading a
\* set field gives the value last assigned.
C7_ReadOfUnsetField ==
    (op.name = "get" /\ IsField(op.self.cls, op.key))
        => IF op.key \in DOMAIN op.self.vals
           THEN op.exc = "" /\ op.ret = op.self.vals[op.key]
           ELSE op.exc = "FieldNotRetrieved"

\* C8: wrap() raises nothing, its keys are exactly the declared fields that are set,
\* each mapped to its field's wrap of the current value, and the instance is unchanged.
C8_WrapOfSetFields ==
    (op.name = "wrap")
        => /\ op.exc = ""
           /\ op.ret.cls = "dict"
           /\ DOMAIN op.ret.vals = {n \in get_fields(inst.cls) : n \in DOMAIN inst.vals}
           /\ \A n \in DOMAIN op.ret.vals :
                 op.ret.vals[n] = FieldWrap(schema[inst.cls][n], inst.vals[n]).obj
           /\ inst = op.self

\* wrap() after a commit gave the instance its _id, with a field still unset.
C8_Witness ==
    /\ op.name = "wrap" /\ op.exc = ""
    /\ coll.saved # {}
    /\ "_id" \in DOMAIN inst.vals
    /\ \E n \in get_fields(inst.cls) : n \notin DOMAIN inst.vals

-----------------------------------------------------------------------------
(* commit *)

CommitDone == op.name = "commit" /\ pc = "idle"

Events(ev) == {j \in DOMAIN trace : trace[j].ev = ev}

\* C4: a commit whose save returned an identifier ends normally with _id set to that
\* identifier; a commit whose save failed leaves _id (and the instance) as it was.
C4_IdOnlyOnSuccess ==
    CommitDone =>
        /\ (op.ret # NoneV) =>
              (op.exc = "" /\ op.ret \in ObjectIds /\ GetAttr(inst, "_id") = Result("", op.ret))
        /\ (op.ret = NoneV) => (inst = op.self)

\* A first commit of an instance that had no _id.
C4_Witness ==
    /\ CommitDone /\ op.exc = "" /\ op.ret # NoneV
    /\ "_id" \notin DOMAIN op.self.vals

\* Inside commit every declared index is ensured before save; save is called at
\* most once, with wrap(); _id is assigned only after save returned; a failed ensure
\* means no save; a failed save leaves the ensured indexes on the collection and
\* persists nothing.
C10_Order ==
    (op.name = "commit") =>
        /\ Cardinality(Events("save")) <= 1
        /\ \A j \in Events("save") :
              /\ {trace[k].idx : k \in {k \in Events("ensure_index") : k < j}}
                     = IndexNames(op.self.cls)
              /\ trace[j].doc = DocWrap(op.self).obj
        /\ \A j \in Events("setattr") :
              /\ \E k \in Events("save") : k < j
              /\ op.ret # NoneV /\ trace[j].doc = op.ret
        /\ (pc = "idle" /\ op.exc = "OperationFailure" /\ trace # <<>>
               /\ trace[Len(trace)].ev = "ensure_index")
              => Events("save") = {}
        /\ (pc = "idle" /\ op.exc = "OperationFailure" /\ trace # <<>>
               /\ trace[Len(trace)].ev = "save")
              => {ensure(index[i]).req : i \in IndexNames(op.self.cls)} \subseteq coll.indexes

\* The step in which save fails changes nothing on the collection.
C10_FailedSaveStep ==
    (pc = "ensure" /\ todo = <<>> /\ pc' = "idle") => (coll' = coll /\ inst' = inst)

\* C10: commit ensures every declared index, then saves wrap() at most once, then
\* assigns _id; a failed ensure stops it before save, and a failed save leaves the
\* ensured indexes in place and persists nothing.
C10_CommitOrder == [](C10_Order) /\ [][C10_FailedSaveStep]_vars

\* Both indexes ensured, then save failed.
C10_Witness ==
    /\ CommitDone /\ op.exc = "OperationFailure"
    /\ Len(trace) = Len(get_indexes(op.self.cls)) + 1
    /\ trace[Len(trace)].ev = "save"
    /\ coll.indexes # {}

-----------------------------------------------------------------------------
(* Index *)

IndexOps == {"ascending", "descending", "unique", "ensure"}

\* The components are the builder calls in call order, unique is set once unique() was
\* called, every call that returns gives back the Index it was made on, and consecutive
\* ensure calls on one Index send the same request.
C9_Builder ==
    /\ \A i \in DOMAIN index :
          /\ index[i].components = chain[i].calls
          /\ index[i].unique = chain[i].uniq
    /\ (op.name \in IndexOps /\ op.exc = "") => (op.ret = op.self)
    /\ (op.name = "ensure") => \A j, k \in DOMAIN trace : trace[j].req = trace[k].req

\* ensure leaves the Index as it is; an ensure right after a successful ensure of the
\* same Index leaves the collection's indexes as they are.
C9_EnsureStep ==
    (op'.name = "ensure") =>
        /\ index' = index
        /\ (op.name = "ensure" /\ op.exc = "" /\ op'.self = op.self)
              => (coll'.indexes = coll.indexes)

\* C9: the Index builder keeps the call order and returns itself; ensure is idempotent.
C9_IndexBuilder == [](C9_Builder) /\ [][C9_EnsureStep]_vars

\* Index().ascending("a").descending("b").unique(), ensured twice in a row.
C9_Witness ==
    /\ \E i \in DOMAIN index :
          /\ index[i].components = <<<<"a", ASCENDING>>, <<"b", DESCENDING>>>>
          /\ index[i].unique
          /\ op.name = "ensure" /\ op.self = IndexRef(i) /\ op.exc = ""
    /\ Len(trace) = 2
    /\ Cardinality(coll.indexes) = 1

====
